---- MODULE Spec2Model ----
(***************************************************************************)
(* The rclone daemon driver of src/src/utils/rclone.js: the line framer    *)
(* (streamReadlineHandler), the log-line parser (rcdJsonParser) and the    *)
(* daemon supervisor (rcd with its emitReady and jsonLogEmmit listeners).  *)
(*                                                                         *)
(* A JavaScript string is a sequence of one-character strings.  The text   *)
(* that arrives on a stream is a sequence of pieces: the newline character *)
(* or a fragment that stands for a fixed run of characters without a       *)
(* newline (Expand gives its characters).  Chunk boundaries fall between   *)
(* pieces.                                                                 *)
(***************************************************************************)
EXTENDS Integers, Sequences, FiniteSets, TLC

\* Total number of pieces the two daemon streams deliver in one run.
MaxInput == 4

\* Number of pieces one line framer receives in one run of SpecFramer.
MaxFramerInput == 5

Streams == {"stdout", "stderr"}

LF == "\n"

\* The fragments: two JSON log lines, a line that is not JSON, and a JSON
\* text that is not a log record.
ReadyPiece == "<ready>"
FailedPiece == "<failed>"
PanicPiece == "<panic>"
NullPiece == "<null>"

Fragments == {ReadyPiece, FailedPiece, PanicPiece, NullPiece}

Char == Fragments \cup {LF}

\* All texts of 1..n pieces.
Texts(n) == UNION {[1..k -> Char] : k \in 1..n}

(***************************************************************************)
(* String literals of the source and the characters of the fragments.     *)
(***************************************************************************)
\* data.source.startsWith(...), rclone.js line 177
\*   rcserver/rcserver.go   (20 characters)
RcServerMarker ==
    <<"r", "c", "s", "e", "r", "v", "e", "r", "/", "r", "c", "s", "e", "r", "v", "e", "r", ".",
      "g", "o">>

\* data.msg.startsWith(...), rclone.js line 177
\*   Serving remote control   (22 characters)
ServingMarker ==
    <<"S", "e", "r", "v", "i", "n", "g", " ", "r", "e", "m", "o", "t", "e", " ", "c", "o", "n",
      "t", "r", "o", "l">>

\* data.msg.includes(...), rclone.js line 180
\*   Failed to start remote control:   (31 characters)
FailedMarker ==
    <<"F", "a", "i", "l", "e", "d", " ", "t", "o", " ", "s", "t", "a", "r", "t", " ", "r", "e",
      "m", "o", "t", "e", " ", "c", "o", "n", "t", "r", "o", "l", ":">>

\* data.msg.slice(26), rclone.js line 179
ReadyPrefixLen == 26

\* The address the ready log line announces
\*   http://127.0.0.1:5572/   (22 characters)
ReadyAddress ==
    <<"h", "t", "t", "p", ":", "/", "/", "1", "2", "7", ".", "0", ".", "0", ".", "1", ":", "5",
      "5", "7", "2", "/">>

\* source field of the ready log line
\*   rcserver/rcserver.go:178   (24 characters)
ReadySource ==
    <<"r", "c", "s", "e", "r", "v", "e", "r", "/", "r", "c", "s", "e", "r", "v", "e", "r", ".",
      "g", "o", ":", "1", "7", "8">>

\* msg field of the ready log line
\*   Serving remote control on http://127.0.0.1:5572/   (48 characters)
ReadyMsg ==
    <<"S", "e", "r", "v", "i", "n", "g", " ", "r", "e", "m", "o", "t", "e", " ", "c", "o", "n",
      "t", "r", "o", "l", " ", "o", "n", " ", "h", "t", "t", "p", ":", "/", "/", "1", "2", "7",
      ".", "0", ".", "0", ".", "1", ":", "5", "5", "7", "2", "/">>

\* source field of the start-failure log line
\*   rcserver/rcserver.go:171   (24 characters)
FailedSource ==
    <<"r", "c", "s", "e", "r", "v", "e", "r", "/", "r", "c", "s", "e", "r", "v", "e", "r", ".",
      "g", "o", ":", "1", "7", "1">>

\* msg field of the start-failure log line
\*   Failed to start remote control: address already in use   (54 characters)
FailedMsg ==
    <<"F", "a", "i", "l", "e", "d", " ", "t", "o", " ", "s", "t", "a", "r", "t", " ", "r", "e",
      "m", "o", "t", "e", " ", "c", "o", "n", "t", "r", "o", "l", ":", " ", "a", "d", "d", "r",
      "e", "s", "s", " ", "a", "l", "r", "e", "a", "d", "y", " ", "i", "n", " ", "u", "s", "e">>

\* the ready log line as the daemon writes it
\*   {"level":"info","source":"rcserver/rcserver.go:178","msg":"Serving remote control on http://127.0.0.1:5572/"}   (109 characters)
ReadyText ==
    <<"{", "\"", "l", "e", "v", "e", "l", "\"", ":", "\"", "i", "n", "f", "o", "\"", ",", "\"",
      "s", "o", "u", "r", "c", "e", "\"", ":", "\"", "r", "c", "s", "e", "r", "v", "e", "r",
      "/", "r", "c", "s", "e", "r", "v", "e", "r", ".", "g", "o", ":", "1", "7", "8", "\"",
      ",", "\"", "m", "s", "g", "\"", ":", "\"", "S", "e", "r", "v", "i", "n", "g", " ", "r",
      "e", "m", "o", "t", "e", " ", "c", "o", "n", "t", "r", "o", "l", " ", "o", "n", " ", "h",
      "t", "t", "p", ":", "/", "/", "1", "2", "7", ".", "0", ".", "0", ".", "1", ":", "5", "5",
      "7", "2", "/", "\"", "}">>

\* the start-failure log line as the daemon writes it
\*   {"level":"error","source":"rcserver/rcserver.go:171","msg":"Failed to start remote control: address already in use"}   (116 characters)
FailedText ==
    <<"{", "\"", "l", "e", "v", "e", "l", "\"", ":", "\"", "e", "r", "r", "o", "r", "\"", ",",
      "\"", "s", "o", "u", "r", "c", "e", "\"", ":", "\"", "r", "c", "s", "e", "r", "v", "e",
      "r", "/", "r", "c", "s", "e", "r", "v", "e", "r", ".", "g", "o", ":", "1", "7", "1",
      "\"", ",", "\"", "m", "s", "g", "\"", ":", "\"", "F", "a", "i", "l", "e", "d", " ", "t",
      "o", " ", "s", "t", "a", "r", "t", " ", "r", "e", "m", "o", "t", "e", " ", "c", "o", "n",
      "t", "r", "o", "l", ":", " ", "a", "d", "d", "r", "e", "s", "s", " ", "a", "l", "r", "e",
      "a", "d", "y", " ", "i", "n", " ", "u", "s", "e", "\"", "}">>

\* a line that is not JSON
\*   panic: something bad   (20 characters)
PanicText ==
    <<"p", "a", "n", "i", "c", ":", " ", "s", "o", "m", "e", "t", "h", "i", "n", "g", " ", "b",
      "a", "d">>

\* a JSON text that is not a log record
\*   null   (4 characters)
NullText ==
    <<"n", "u", "l", "l">>

(***************************************************************************)
(* JavaScript string operations, on sequences (indices count from 0).     *)
(***************************************************************************)
\* String.prototype.startsWith
StartsWith(str, prefix) ==
    /\ Len(prefix) <= Len(str)
    /\ \A j \in 1..Len(prefix) : str[j] = prefix[j]

\* String.prototype.includes
Includes(str, part) ==
    \E i \in 0..(Len(str) - Len(part)) : \A j \in 1..Len(part) : str[i + j] = part[j]

\* String.prototype.indexOf: the first index of c, or -1
IndexOf(str, c) ==
    IF \E i \in 1..Len(str) : str[i] = c
    THEN (CHOOSE i \in 1..Len(str) : str[i] = c /\ \A j \in 1..(i - 1) : str[j] # c) - 1
    ELSE -1

\* String.prototype.slice(from, to)
Slice(str, from, to) == IF from >= to THEN <<>> ELSE SubSeq(str, from + 1, to)

\* String.prototype.slice(from)
SliceFrom(str, from) == IF from >= Len(str) THEN <<>> ELSE SubSeq(str, from + 1, Len(str))

\* Array.prototype.join(sep)
RECURSIVE Join(_, _)
Join(strs, sep) ==
    IF strs = <<>> THEN <<>>
    ELSE IF Len(strs) = 1 THEN strs[1]
    ELSE strs[1] \o sep \o Join(Tail(strs), sep)

\* The characters a piece stands for.
Expand(c) ==
    CASE c = ReadyPiece -> ReadyText
      [] c = FailedPiece -> FailedText
      [] c = PanicPiece -> PanicText
      [] c = NullPiece -> NullText
      [] OTHER -> <<c>>

\* The JavaScript string of a text of pieces.
RECURSIVE Flatten(_)
Flatten(text) == IF text = <<>> THEN <<>> ELSE Expand(Head(text)) \o Flatten(Tail(text))

(***************************************************************************)
(* JSON values: null, or an object with the string fields named in has.   *)
(* The value of the time field (a clock reading) is not represented.      *)
(***************************************************************************)
JsonNull == [t |-> "null", has |-> {}, level |-> "", source |-> <<>>, msg |-> <<>>]

LogRecord(level, source, msg) ==
    [t |-> "object", has |-> {"level", "source", "msg"},
     level |-> level, source |-> source, msg |-> msg]

\* JSON.parse accepts a text that is one JSON value with white space (here:
\* newlines) around it; no two fragments side by side form a JSON value.
JsonValid(text) ==
    LET body == SelectSeq(text, LAMBDA c : c # LF)
    IN  Len(body) = 1 /\ body[1] \in {ReadyPiece, FailedPiece, NullPiece}

\* JSON.parse of a valid text
JsonParse(text) ==
    LET body == SelectSeq(text, LAMBDA c : c # LF)
    IN  CASE body[1] = ReadyPiece -> LogRecord("info", ReadySource, ReadyMsg)
          [] body[1] = FailedPiece -> LogRecord("error", FailedSource, FailedMsg)
          [] OTHER -> JsonNull

rcdJsonParser(text) ==
    IF JsonValid(text)
    THEN JsonParse(text)
    ELSE [t |-> "object", has |-> {"level", "source", "time", "msg"},
          level |-> "error", source |-> <<>>, msg |-> Flatten(text)]

(***************************************************************************)
(* State.                                                                  *)
(***************************************************************************)
VARIABLES
    backlog,         \* per stream, the framer's backlog
    input,           \* per stream, the text delivered so far (history)
    chunks,          \* number of 'data' events of the stand-alone framer (history)
    ended,           \* per stream, whether 'end' was emitted
    lines,           \* per stream, the lines the framer passed to its callback
    feed,            \* the proc.emit('data', ...) calls, in order
    signals,         \* the proc.emit('ready'/'error', ...) and proc.kill calls
    listening,       \* whether emitReady is a 'data' listener of proc
    errorListeners,  \* number of 'error' listeners the caller registered
    uncaught,        \* exceptions that left a stream handler
    caller,          \* the caller of rcd: its listeners and what they were called with
    rc,              \* the remoteCommand call: its request, controller and result
    drv              \* the driver: its construction, probes and daemon launch

daemonVars ==
    <<backlog, input, chunks, ended, lines, feed, signals, listening, errorListeners, uncaught,
      caller>>

vars == <<daemonVars, rc, drv>>

\* No remoteCommand call was made.
NoRemoteCommand == [phase |-> "none"]

\* No driver is under observation.
NoDriver == [pc |-> "none"]

\* No caller is under observation: no 'data' or 'ready' listener of its own.
NoCaller == [pc |-> "none", observed |-> <<>>]

\* What a handler reads and writes, with the exception it is raising.
World ==
    [backlog |-> backlog, lines |-> lines, feed |-> feed, signals |-> signals,
     listening |-> listening, errorListeners |-> errorListeners, caller |-> caller,
     exc |-> "none"]

Throw(w, err) == [w EXCEPT !.exc = err]

\* A listener of the caller is called for an event.
Observe(ev, at, w) ==
    IF w.caller.pc = "subscribed"
    THEN [w EXCEPT !.caller.observed = Append(@, [ev |-> ev, at |-> at])]
    ELSE w

\* proc.emit('ready', ...), proc.emit('error', ...) with an 'error' listener,
\* and proc.kill: the call is recorded, then the caller's listeners run.
Signal(ev, payload, w) ==
    LET w1 == [w EXCEPT !.signals = Append(@, [ev |-> ev, payload |-> payload, at |-> Len(w.feed)])]
    IN  IF ev = "ready" \/ (ev = "error" /\ w.errorListeners > 0)
        THEN Observe(ev, Len(w1.signals), w1)
        ELSE w1

(***************************************************************************)
(* rcd: the listeners.                                                     *)
(***************************************************************************)
\* emitReady that leaves itself registered after the ready match.
emitReadyKeepsListener(data, w) ==
    IF data.t = "null" \/ "source" \notin data.has
    THEN Throw(w, "TypeError")
    ELSE IF StartsWith(data.source, RcServerMarker) /\ "msg" \notin data.has
    THEN Throw(w, "TypeError")
    ELSE IF StartsWith(data.source, RcServerMarker) /\ StartsWith(data.msg, ServingMarker)
    THEN Signal("ready", SliceFrom(data.msg, ReadyPrefixLen), w)
    ELSE IF "msg" \notin data.has
    THEN Throw(w, "TypeError")
    ELSE IF Includes(data.msg, FailedMarker)
    THEN IF w.errorListeners = 0
         THEN Throw(Signal("error", data.msg, w), "ERR_UNHANDLED_ERROR")
         ELSE Signal("kill", <<>>, Signal("error", data.msg, w))
    ELSE w

\* emitReady that cuts the marker sentence only, not the 26 characters.
emitReadyCutsMarker(data, w) ==
    IF data.t = "null" \/ "source" \notin data.has
    THEN Throw(w, "TypeError")
    ELSE IF StartsWith(data.source, RcServerMarker) /\ "msg" \notin data.has
    THEN Throw(w, "TypeError")
    ELSE IF StartsWith(data.source, RcServerMarker) /\ StartsWith(data.msg, ServingMarker)
    THEN Signal("ready", SliceFrom(data.msg, Len(ServingMarker)), [w EXCEPT !.listening = FALSE])
    ELSE IF "msg" \notin data.has
    THEN Throw(w, "TypeError")
    ELSE IF Includes(data.msg, FailedMarker)
    THEN IF w.errorListeners = 0
         THEN Throw(Signal("error", data.msg, w), "ERR_UNHANDLED_ERROR")
         ELSE Signal("kill", <<>>, Signal("error", data.msg, w))
    ELSE w

\* emitReady on one 'data' message.  Reading a property of null or calling
\* a method of undefined raises TypeError; emit('error') without an 'error'
\* listener raises ERR_UNHANDLED_ERROR.  The "kill" signal is proc.kill(1).
emitReady(data, w) ==
    IF data.t = "null" \/ "source" \notin data.has
    THEN Throw(w, "TypeError")
    ELSE IF StartsWith(data.source, RcServerMarker) /\ "msg" \notin data.has
    THEN Throw(w, "TypeError")
    ELSE IF StartsWith(data.source, RcServerMarker) /\ StartsWith(data.msg, ServingMarker)
    THEN Signal("ready", SliceFrom(data.msg, ReadyPrefixLen), [w EXCEPT !.listening = FALSE])
    ELSE IF "msg" \notin data.has
    THEN Throw(w, "TypeError")
    ELSE IF Includes(data.msg, FailedMarker)
    THEN IF w.errorListeners = 0
         THEN Throw(Signal("error", data.msg, w), "ERR_UNHANDLED_ERROR")
         ELSE Signal("kill", <<>>, Signal("error", data.msg, w))
    ELSE w

\* jsonLogEmmit whose emit calls emitReady even after proc.off removed it.
jsonLogEmmitIgnoresOff(s, text, w) ==
    LET data == rcdJsonParser(text)
        w1 == [w EXCEPT !.feed = Append(@, [from |-> s, data |-> data])]
    IN  emitReady(data, w1)

\* jsonLogEmmit that publishes only while emitReady is registered.
jsonLogEmmitWhileDetecting(s, text, w) ==
    LET data == rcdJsonParser(text)
        w1 == [w EXCEPT !.feed = Append(@, [from |-> s, data |-> data])]
    IN  IF w.listening THEN emitReady(data, w1) ELSE w

\* jsonLogEmmit: proc.emit('data', rcdJsonParser(text)), which calls the
\* 'data' listeners; emitReady is the first of them while it is registered.
\* The caller's 'data' listener was added after emitReady, so it is called
\* after it, and not at all when emitReady throws.
jsonLogEmmit(s, text, w) ==
    LET data == rcdJsonParser(text)
        w1 == [w EXCEPT !.feed = Append(@, [from |-> s, data |-> data])]
        w2 == IF w1.listening THEN emitReady(data, w1) ELSE w1
    IN  IF w2.exc # "none" THEN w2 ELSE Observe("data", Len(w2.feed), w2)

(***************************************************************************)
(* streamReadlineHandler.  cb names the callback: "collect" keeps the      *)
(* lines, "jsonLogEmmit" is the callback rcd passes.                       *)
(***************************************************************************)
Callback(cb, s, text, w) ==
    LET w1 == [w EXCEPT !.lines[s] = Append(@, text)]
    IN  IF cb = "collect" THEN w1 ELSE jsonLogEmmit(s, text, w1)

\* A 'data' handler that takes one line off the backlog, not every line.
readLinesOnce(cb, s, w) ==
    LET n == IndexOf(w.backlog[s], LF)
    IN  IF n = -1
        THEN w
        ELSE LET w1 == Callback(cb, s, Slice(w.backlog[s], 0, n), w)
             IN  IF w1.exc # "none"
                 THEN w1
                 ELSE [w1 EXCEPT !.backlog[s] = SliceFrom(@, n + 1)]

\* The while loop of the 'data' handler; an exception of the callback
\* leaves the loop before the backlog is cut.
RECURSIVE readLines(_, _, _)
readLines(cb, s, w) ==
    LET n == IndexOf(w.backlog[s], LF)
    IN  IF n = -1
        THEN w
        ELSE LET w1 == Callback(cb, s, Slice(w.backlog[s], 0, n), w)
             IN  IF w1.exc # "none"
                 THEN w1
                 ELSE readLines(cb, s, [w1 EXCEPT !.backlog[s] = SliceFrom(@, n + 1)])

\* A 'data' handler that replaces the backlog by the chunk.
onDataReplacesBacklog(cb, s, data, w) == readLines(cb, s, [w EXCEPT !.backlog[s] = data])

\* stream.on('data', ...)
onData(cb, s, data, w) == readLines(cb, s, [w EXCEPT !.backlog[s] = @ \o data])

\* An 'end' handler that calls back whatever the backlog holds.
onEndAlwaysFlushes(cb, s, w) == Callback(cb, s, w.backlog[s], w)

\* stream.on('end', ...)
onEnd(cb, s, w) == IF w.backlog[s] # <<>> THEN Callback(cb, s, w.backlog[s], w) ELSE w

(***************************************************************************)
(* Actions.                                                                *)
(***************************************************************************)
Commit(s, r) ==
    /\ backlog' = r.backlog
    /\ lines' = r.lines
    /\ feed' = r.feed
    /\ signals' = r.signals
    /\ listening' = r.listening
    /\ uncaught' = IF r.exc = "none"
                   THEN uncaught
                   ELSE Append(uncaught, [from |-> s, err |-> r.exc, line |-> Len(r.lines[s])])
    /\ caller' = r.caller

Delivered == Len(input["stdout"]) + Len(input["stderr"])

\* State after rcd() returned: both framers empty, emitReady registered.
Init ==
    /\ backlog = [s \in Streams |-> <<>>]
    /\ input = [s \in Streams |-> <<>>]
    /\ chunks = 0
    /\ ended = [s \in Streams |-> FALSE]
    /\ lines = [s \in Streams |-> <<>>]
    /\ feed = <<>>
    /\ signals = <<>>
    /\ listening = TRUE
    /\ errorListeners = 0
    /\ uncaught = <<>>
    /\ caller = NoCaller
    /\ rc = NoRemoteCommand
    /\ drv = NoDriver

\* The caller registers an 'error' listener on the returned process.
CallerOnError ==
    /\ errorListeners = 0
    /\ errorListeners' = 1
    /\ UNCHANGED <<backlog, input, chunks, ended, lines, feed, signals, listening, uncaught>>
    /\ UNCHANGED <<caller, rc, drv>>

\* A chunk arrives on a stream of the daemon.
StreamData(s, data) ==
    /\ ~ended[s]
    /\ data \in Texts(MaxInput - Delivered)
    /\ input' = [input EXCEPT ![s] = @ \o data]
    /\ Commit(s, onData("jsonLogEmmit", s, data, World))
    /\ UNCHANGED <<chunks, ended, errorListeners, rc, drv>>

\* A stream of the daemon ends.
StreamEnd(s) ==
    /\ ~ended[s]
    /\ ended' = [ended EXCEPT ![s] = TRUE]
    /\ Commit(s, onEnd("jsonLogEmmit", s, World))
    /\ UNCHANGED <<input, chunks, errorListeners, rc, drv>>

Next ==
    \/ CallerOnError
    \/ \E s \in Streams : \E data \in Texts(MaxInput - Delivered) : StreamData(s, data)
    \/ \E s \in Streams : StreamEnd(s)

Spec == Init /\ [][Next]_vars

(***************************************************************************)
(* The daemon with its caller.  rcd runs from spawn to return without      *)
(* emitting: its emit calls are all inside the stream handlers, which the  *)
(* event loop calls in later turns.  The caller adds its 'data', 'ready'   *)
(* and 'error' listeners in the turn that called rcd.                      *)
(***************************************************************************)
CallerInit ==
    /\ backlog = [s \in Streams |-> <<>>]
    /\ input = [s \in Streams |-> <<>>]
    /\ chunks = 0
    /\ ended = [s \in Streams |-> FALSE]
    /\ lines = [s \in Streams |-> <<>>]
    /\ feed = <<>>
    /\ signals = <<>>
    /\ listening = FALSE
    /\ errorListeners = 0
    /\ uncaught = <<>>
    /\ caller = [pc |-> "idle", observed |-> <<>>]
    /\ rc = NoRemoteCommand
    /\ drv = NoDriver

\* rcd(env): proc.on('data', emitReady) and return proc
CallerRcd ==
    /\ caller.pc = "idle"
    /\ caller' = [caller EXCEPT !.pc = "returned"]
    /\ listening' = TRUE
    /\ UNCHANGED <<backlog, input, chunks, ended, lines, feed, signals, errorListeners, uncaught>>
    /\ UNCHANGED <<rc, drv>>

\* The caller adds its listeners to the returned process.
CallerSubscribes ==
    /\ caller.pc = "returned"
    /\ caller' = [caller EXCEPT !.pc = "subscribed"]
    /\ errorListeners' = 1
    /\ UNCHANGED <<backlog, input, chunks, ended, lines, feed, signals, listening, uncaught>>
    /\ UNCHANGED <<rc, drv>>

\* The turn that called rcd is over: the streams deliver.
CallerStreamData(s, data) == caller.pc = "subscribed" /\ StreamData(s, data)

CallerStreamEnd(s) == caller.pc = "subscribed" /\ StreamEnd(s)

CallerNext ==
    \/ CallerRcd
    \/ CallerSubscribes
    \/ \E s \in Streams : \E data \in Texts(MaxInput - Delivered) : CallerStreamData(s, data)
    \/ \E s \in Streams : CallerStreamEnd(s)

SpecCaller == CallerInit /\ [][CallerNext]_vars

(***************************************************************************)
(* One line framer on its own, with a callback that collects the lines.   *)
(***************************************************************************)
FramerInit ==
    /\ backlog = [s \in Streams |-> <<>>]
    /\ input = [s \in Streams |-> <<>>]
    /\ chunks = 0
    /\ ended = [s \in Streams |-> FALSE]
    /\ lines = [s \in Streams |-> <<>>]
    /\ feed = <<>>
    /\ signals = <<>>
    /\ listening = FALSE
    /\ errorListeners = 0
    /\ uncaught = <<>>
    /\ caller = NoCaller
    /\ rc = NoRemoteCommand
    /\ drv = NoDriver

FramerData(data) ==
    /\ ~ended["stdout"]
    /\ data \in Texts(MaxFramerInput - Len(input["stdout"]))
    /\ input' = [input EXCEPT !["stdout"] = @ \o data]
    /\ chunks' = chunks + 1
    /\ Commit("stdout", onData("collect", "stdout", data, World))
    /\ UNCHANGED <<ended, errorListeners, rc, drv>>

FramerEnd ==
    /\ ~ended["stdout"]
    /\ ended' = [ended EXCEPT !["stdout"] = TRUE]
    /\ Commit("stdout", onEnd("collect", "stdout", World))
    /\ UNCHANGED <<input, chunks, errorListeners, rc, drv>>

FramerNext ==
    \/ \E data \in Texts(MaxFramerInput - Len(input["stdout"])) : FramerData(data)
    \/ FramerEnd

SpecFramer == FramerInit /\ [][FramerNext]_vars

(***************************************************************************)
(* remoteCommand.  The request is what result() hands to fetch; the        *)
(* network and the fetch library move the call through its phases:        *)
(* "awaiting" the response, "reading" the body, "settled".                 *)
(***************************************************************************)
\* Number of abort() calls in one run.
MaxAborts == 3

\* Number of body chunks a response delivers before it ends.
MaxBodyChunks == 2

Servers == {[uri |-> "http://127.0.0.1:5572/", auth |-> a] : a \in {"", "user:pass"}}

Endpoints == {"core/version", "config/dump"}

\* Payloads are written as their JSON text; "undefined" is no payload.
Payloads == {"undefined", "{}", "{\"long\":true}"}

\* Buffer.from(str).toString('base64'), kept symbolic
Base64(str) == <<"base64", str>>

\* JSON.stringify(payload || {})
RequestBody(payload) == IF payload = "undefined" THEN "{}" ELSE payload

\* A request that does not carry the controller's signal.
FetchRequestWithoutSignal(server, endpoint, payload) ==
    [uri |-> <<server.uri, endpoint>>,
     method |-> "POST",
     signal |-> "none",
     authorization |-> IF server.auth # "" THEN <<"Basic ">> \o Base64(server.auth) ELSE <<"null">>,
     contentType |-> "application/json",
     body |-> RequestBody(payload)]

\* The arguments of fetch in result()
FetchRequest(server, endpoint, payload) ==
    [uri |-> <<server.uri, endpoint>>,
     method |-> "POST",
     signal |-> "abortController.signal",
     authorization |-> IF server.auth # "" THEN <<"Basic ">> \o Base64(server.auth) ELSE <<"null">>,
     contentType |-> "application/json",
     body |-> RequestBody(payload)]

\* remoteCommand(server, endpoint, payload): the state when it returns, with
\* result() run up to its first await.
remoteCommand(server, endpoint, payload) ==
    [phase |-> "awaiting",
     request |-> FetchRequest(server, endpoint, payload),
     sent |-> 1,
     aborted |-> FALSE,
     result |-> "pending",
     received |-> 0,
     abortCalls |-> 0,
     abortPhase |-> "none"]

\* An abort that rejects the result whatever its state.
abortRejectsAgain(r) ==
    [r EXCEPT !.aborted = TRUE, !.result = "AbortError", !.phase = "settled"]

\* abort(): abortController.abort().  The signal fires once; a pending
\* fetch or body read that carries it rejects with AbortError.
abort(r) ==
    IF r.aborted
    THEN r
    ELSE IF r.request.signal = "abortController.signal" /\ r.result = "pending"
    THEN [r EXCEPT !.aborted = TRUE, !.result = "AbortError", !.phase = "settled"]
    ELSE [r EXCEPT !.aborted = TRUE]

\* State after remoteCommand(...) returned.
RemoteInit ==
    /\ backlog = [s \in Streams |-> <<>>]
    /\ input = [s \in Streams |-> <<>>]
    /\ chunks = 0
    /\ ended = [s \in Streams |-> FALSE]
    /\ lines = [s \in Streams |-> <<>>]
    /\ feed = <<>>
    /\ signals = <<>>
    /\ listening = FALSE
    /\ errorListeners = 0
    /\ uncaught = <<>>
    /\ caller = NoCaller
    /\ drv = NoDriver
    /\ \E server \in Servers : \E endpoint \in Endpoints : \E payload \in Payloads :
           rc = remoteCommand(server, endpoint, payload)

\* The caller calls abort.
RcAbort ==
    /\ rc.abortCalls < MaxAborts
    /\ rc' = [abort(rc) EXCEPT !.abortCalls = @ + 1,
                               !.abortPhase = IF rc.abortCalls = 0 THEN rc.phase ELSE @]
    /\ UNCHANGED <<daemonVars, drv>>

\* The response arrives: fetch resolves and fetcher.json() starts to read.
RcResponse ==
    /\ rc.phase = "awaiting"
    /\ rc' = [rc EXCEPT !.phase = "reading"]
    /\ UNCHANGED <<daemonVars, drv>>

\* A chunk of the body arrives.
RcBodyChunk ==
    /\ rc.phase = "reading"
    /\ rc.received < MaxBodyChunks
    /\ rc' = [rc EXCEPT !.received = @ + 1]
    /\ UNCHANGED <<daemonVars, drv>>

\* The body ends: json() resolves with the value or rejects on a body that
\* is not JSON.
RcBodyEnd(isJson) ==
    /\ rc.phase = "reading"
    /\ rc' = [rc EXCEPT !.phase = "settled",
                        !.result = IF isJson THEN "value" ELSE "InvalidJson"]
    /\ UNCHANGED <<daemonVars, drv>>

\* The connection fails while the call is in flight.
RcTransportError ==
    /\ rc.phase \in {"awaiting", "reading"}
    /\ rc' = [rc EXCEPT !.phase = "settled", !.result = "FetchError"]
    /\ UNCHANGED <<daemonVars, drv>>

RemoteNext ==
    \/ RcAbort
    \/ RcResponse
    \/ RcBodyChunk
    \/ \E isJson \in BOOLEAN : RcBodyEnd(isJson)
    \/ RcTransportError

SpecRemote == RemoteInit /\ [][RemoteNext]_vars

(***************************************************************************)
(* rcloneDriver: binary resolution, the version and config-file probes    *)
(* and the environment of the daemon.  Paths are sequences of segments;   *)
(* the output of a subprocess is a sequence of pieces: a word, a blank or *)
(* a newline.                                                              *)
(***************************************************************************)
\* Number of pieces on the stdout of a probed subprocess.
MaxOutput == 3

Platforms == {"linux", "win32"}

\* platformBinaryName
platformBinaryName(platform) == IF platform = "win32" THEN "rclone.exe" ELSE "rclone"

\* What a path names in the file system.
FileKinds == {"missing", "file", "directory", "link-to-file", "link-to-directory", "dangling-link"}

\* existsSync follows symbolic links.
existsSync(kind) == kind \notin {"missing", "dangling-link"}

\* lstatSync(path).isDirectory() looks at the path itself.
lstatIsDirectory(kind) == kind = "directory"

\* path.join(dir, name)
join(dir, name) == Append(dir, name)

Thrown(message) == [threw |-> TRUE, value |-> <<message>>]

Returned(value) == [threw |-> FALSE, value |-> value]

\* getRcloneBinary that does not look whether the path exists.
getRcloneBinaryUnchecked(path, kind, platform) ==
    IF lstatIsDirectory(kind)
    THEN Returned(join(path, IF platform = "win32" THEN "rclone.exe" ELSE "rclone"))
    ELSE Returned(path)

getRcloneBinary(path, kind, platform) ==
    IF ~existsSync(kind)
    THEN [threw |-> TRUE, value |-> <<"Path: ">> \o path \o <<" does not exist">>]
    ELSE IF lstatIsDirectory(kind)
    THEN Returned(join(path, IF platform = "win32" THEN "rclone.exe" ELSE "rclone"))
    ELSE Returned(path)

\* const binary = !binaryPath ? platformBinaryName : getRcloneBinary(binaryPath)
\* (an absent path and '' are both falsy: the empty sequence)
ResolveBinary(binaryPath, kind, platform) ==
    IF binaryPath = <<>>
    THEN Returned(<<platformBinaryName(platform)>>)
    ELSE getRcloneBinary(binaryPath, kind, platform)

(***************************************************************************)
(* The probes.  spawnSync gives output = null when the process could not  *)
(* be started, else the array [null, stdout, stderr].                      *)
(***************************************************************************)
SP == " "

VersionWord == "v1.60.0"

OutputPieces == {VersionWord, "/home/u/rclone.conf", SP, LF}

OutputTexts(n) == {<<>>} \cup UNION {[1..k -> OutputPieces] : k \in 1..n}

SpawnResults ==
    {[started |-> FALSE, stdout |-> <<>>, stderr |-> <<>>]} \cup
    {[started |-> TRUE, stdout |-> out, stderr |-> <<>>] : out \in OutputTexts(MaxOutput)}

IsSpace(c) == c \in {SP, LF}

\* result.output.toString(): Array.prototype.toString joins with ',' and
\* writes null as ''.
OutputToString(result) == <<",">> \o result.stdout \o <<",">> \o result.stderr

\* String.prototype.trim
Trim(str) ==
    LET keep == {i \in DOMAIN str : ~IsSpace(str[i])}
    IN  IF keep = {} THEN <<>>
        ELSE SubSeq(str, CHOOSE i \in keep : \A j \in keep : i <= j,
                         CHOOSE i \in keep : \A j \in keep : j <= i)

\* str.split(newline): the lines of a string, at least one
RECURSIVE SplitLines(_)
SplitLines(str) ==
    LET n == IndexOf(str, LF)
    IN  IF n = -1 THEN <<str>>
        ELSE <<Slice(str, 0, n)>> \o SplitLines(SliceFrom(str, n + 1))

\* str.split(/\s+/).pop(): what follows the last white space
LastToken(str) ==
    LET ws == {i \in DOMAIN str : IsSpace(str[i])}
    IN  IF ws = {} THEN str
        ELSE SliceFrom(str, CHOOSE i \in ws : \A j \in ws : j <= i)

\* semver.clean: the canonical version of a version with an optional
\* leading 'v', null (here "null") for anything else
semverClean(token) ==
    IF Trim(token) = <<VersionWord>> THEN <<"1.60.0">> ELSE <<"null">>

getVersion(result) ==
    IF result.started
    THEN LET ver == LastToken(SplitLines(Trim(OutputToString(result)))[1])
         IN  Returned(semverClean(ver))
    ELSE Thrown("Cannot detect Rclone version.")

getDefaultConfigFile(result) ==
    IF result.started
    THEN LET all == SplitLines(Trim(OutputToString(result)))
         IN  Returned(Trim(IF Len(all) >= 2 /\ all[2] # <<>> THEN all[2] ELSE <<>>))
    ELSE Thrown("Cannot detect default Rclone file.")

\* getConfigFile: the explicit file when one was given ('' is falsy)
getConfigFile(configFile, result) ==
    IF configFile # <<>> THEN Returned(configFile) ELSE getDefaultConfigFile(result)

(***************************************************************************)
(* rcd: the environment of the daemon.  An environment is a function from *)
(* variable names to values.                                               *)
(***************************************************************************)
\* The object spread {...base, ...over}
Spread(base, over) ==
    [k \in DOMAIN base \cup DOMAIN over |-> IF k \in DOMAIN over THEN over[k] ELSE base[k]]

\* The literal keys of lines 162-170, with RCLONE_CONFIG from getConfigFile()
BaselineEnv(config) ==
    [RCLONE_AUTO_CONFIRM |-> <<"false">>,
     RCLONE_CONFIG |-> config,
     RCLONE_PASSWORD |-> <<"false">>,
     RCLONE_RC_SERVER_WRITE_TIMEOUT |-> <<"8760h0m0s">>,
     RCLONE_RC_SERVER_READ_TIMEOUT |-> <<"8760h0m0s">>,
     RCLONE_RC_WEB_GUI |-> <<"false">>,
     RCLONE_RC_NO_AUTH |-> <<"false">>,
     RCLONE_LOG_FORMAT |-> <<"">>,
     RCLONE_LOG_LEVEL |-> <<"NOTICE">>]

ForcedEnv == [RCLONE_USE_JSON_LOG |-> <<"true">>]

\* An environment that spreads the caller's variables last.
DaemonEnvCallerLast(config, env) ==
    Spread(Spread(BaselineEnv(config), ForcedEnv), IF env.given THEN env.vars ELSE <<>>)

\* The env option of spawn in rcd: baseline, ...(env || {}), forced key
DaemonEnv(config, env) ==
    Spread(Spread(BaselineEnv(config), IF env.given THEN env.vars ELSE <<>>), ForcedEnv)

\* The variables a caller may set, and their values.
CallerKeys == {"RCLONE_USE_JSON_LOG", "RCLONE_LOG_LEVEL", "RCLONE_CONFIG", "HOME"}

CallerValues == {<<"false">>, <<"DEBUG">>}

CallerEnvs ==
    {[given |-> FALSE, vars |-> <<>>]} \cup
    {[given |-> TRUE, vars |-> f] : f \in UNION {[K -> CallerValues] : K \in SUBSET CallerKeys}}

(***************************************************************************)
(* A driver under observation: how it was constructed and what its last   *)
(* call gave.  The driver keeps no state between calls, so one run makes  *)
(* one probe or launch call after its getBinary calls.                     *)
(***************************************************************************)
NoCall == [op |-> "none", arg |-> <<>>, threw |-> FALSE, value |-> <<>>]

Call(op, arg, outcome) ==
    [op |-> op, arg |-> arg, threw |-> outcome.threw, value |-> outcome.value]

ExplicitBinaryPath == <<"opt", "rclone">>

ExplicitConfigFile == <<"etc", "rclone.conf">>

DriverInit ==
    /\ backlog = [s \in Streams |-> <<>>]
    /\ input = [s \in Streams |-> <<>>]
    /\ chunks = 0
    /\ ended = [s \in Streams |-> FALSE]
    /\ lines = [s \in Streams |-> <<>>]
    /\ feed = <<>>
    /\ signals = <<>>
    /\ listening = FALSE
    /\ errorListeners = 0
    /\ uncaught = <<>>
    /\ caller = NoCaller
    /\ rc = NoRemoteCommand
    /\ \E platform \in Platforms :
           drv = [pc |-> "new", platform |-> platform, binaryPath |-> <<>>, kind |-> "missing",
                  configFile |-> <<>>, binary |-> <<>>, gets |-> 0, last |-> NoCall]

\* rcloneDriver({ binaryPath, configFile })
rcloneDriver(binaryPath, kind, configFile) ==
    /\ drv.pc = "new"
    /\ LET binary == ResolveBinary(binaryPath, kind, drv.platform)
       IN  drv' = [drv EXCEPT !.pc = IF binary.threw THEN "failed" ELSE "constructed",
                              !.binaryPath = binaryPath,
                              !.kind = kind,
                              !.configFile = configFile,
                              !.binary = IF binary.threw THEN <<>> ELSE binary.value,
                              !.last = Call("rcloneDriver", binaryPath, binary)]
    /\ UNCHANGED <<daemonVars, rc>>

\* Number of getBinary calls in one run.
MaxGets == 2

getBinary ==
    /\ drv.pc = "constructed"
    /\ drv.gets < MaxGets
    /\ drv' = [drv EXCEPT !.gets = @ + 1, !.last = Call("getBinary", <<>>, Returned(drv.binary))]
    /\ UNCHANGED <<daemonVars, rc>>

DriverGetVersion(result) ==
    /\ drv.pc = "constructed"
    /\ drv' = [drv EXCEPT !.pc = "called", !.last = Call("getVersion", result, getVersion(result))]
    /\ UNCHANGED <<daemonVars, rc>>

DriverGetConfigFile(result) ==
    /\ drv.pc = "constructed"
    /\ drv' = [drv EXCEPT !.pc = "called", !.last = Call("getConfigFile", result, getConfigFile(drv.configFile, result))]
    /\ UNCHANGED <<daemonVars, rc>>

\* rcd(env) up to spawn: value is the env option, or what getConfigFile threw.
DriverRcd(env, result) ==
    /\ drv.pc = "constructed"
    /\ LET config == getConfigFile(drv.configFile, result)
       IN  drv' = [drv EXCEPT !.pc = "called", !.last =
                      IF config.threw
                      THEN Call("rcd", env, config)
                      ELSE Call("rcd", env, Returned(DaemonEnv(config.value, env)))]
    /\ UNCHANGED <<daemonVars, rc>>

\* The outputs of 'config file' that rcd is run against.
ConfigProbeResults ==
    {[started |-> FALSE, stdout |-> <<>>, stderr |-> <<>>],
     [started |-> TRUE, stdout |-> <<VersionWord, LF, "/home/u/rclone.conf", LF>>, stderr |-> <<>>]}

DriverNext ==
    \/ \E binaryPath \in {<<>>, ExplicitBinaryPath} : \E kind \in FileKinds :
           \E configFile \in {<<>>, ExplicitConfigFile} : rcloneDriver(binaryPath, kind, configFile)
    \/ getBinary
    \/ \E result \in SpawnResults : DriverGetVersion(result)
    \/ \E result \in SpawnResults : DriverGetConfigFile(result)
    \/ \E env \in CallerEnvs : \E result \in ConfigProbeResults : DriverRcd(env, result)

SpecDriver == DriverInit /\ [][DriverNext]_vars

(***************************************************************************)
(* Properties.                                                             *)
(***************************************************************************)
\* The 'data' messages that came from stream s, in feed order.
FeedOf(s) == SelectSeq(feed, LAMBDA e : e.from = s)

\* The indices of the signals of one kind.
SignalsOf(ev) == {i \in DOMAIN signals : signals[i].ev = ev}

\* A message that satisfies the ready condition of line 177.
MatchesReady(d) ==
    /\ d.t = "object"
    /\ {"source", "msg"} \subseteq d.has
    /\ StartsWith(d.source, RcServerMarker)
    /\ StartsWith(d.msg, ServingMarker)

\* A message that satisfies the start-failure condition of line 180.
MatchesFailed(d) ==
    /\ d.t = "object"
    /\ "msg" \in d.has
    /\ ~MatchesReady(d)
    /\ Includes(d.msg, FailedMarker)

\* The lines of a text that a newline ends.
RECURSIVE CompleteLines(_)
CompleteLines(text) ==
    LET n == IndexOf(text, LF)
    IN  IF n = -1
        THEN <<>>
        ELSE <<Slice(text, 0, n)>> \o CompleteLines(SliceFrom(text, n + 1))

\* What follows the last newline of a text.
Remainder(text) ==
    LET nl == {i \in DOMAIN text : text[i] = LF}
    IN  IF nl = {} THEN text
        ELSE SliceFrom(text, CHOOSE i \in nl : \A j \in nl : j <= i)

\* The lines a stream has delivered: the complete ones and, once the stream
\* ended, the unterminated last one.
DeliveredLines(s) ==
    CompleteLines(input[s]) \o
        (IF ended[s] /\ Remainder(input[s]) # <<>> THEN <<Remainder(input[s])>> ELSE <<>>)

\* C1: once the start-failure signal was emitted, no ready signal is emitted
\* for that daemon: no 'ready' follows an 'error' in the order of emission.
C1_NoReadyAfterFailure ==
    \A i, j \in DOMAIN signals :
        (signals[i].ev = "error" /\ signals[j].ev = "ready") => j < i

\* C2: the ready signal is emitted at most once in a daemon's lifetime,
\* whatever lines stdout and stderr deliver.
C2_ReadyAtMostOnce == Cardinality(SignalsOf("ready")) <= 1

\* Ready was emitted, and a later message satisfies the ready condition again.
C2_Witness ==
    \E i \in SignalsOf("ready") :
        \E k \in DOMAIN feed : k > signals[i].at /\ MatchesReady(feed[k].data)

\* C3: every message that satisfies the start-failure condition while
\* detection is active makes the supervisor emit the failure signal with the
\* message's msg as payload and kill the process, in the same handling step.
C3_FailureAlwaysKills ==
    \A k \in DOMAIN feed :
        (/\ MatchesFailed(feed[k].data)
         /\ \A r \in SignalsOf("ready") : signals[r].at >= k)
        => \E i \in DOMAIN signals :
               /\ signals[i] = [ev |-> "error", payload |-> feed[k].data.msg, at |-> k]
               /\ i + 1 \in DOMAIN signals
               /\ signals[i + 1] = [ev |-> "kill", payload |-> <<>>, at |-> k]

\* C4: after the ready signal no failure signal is emitted and the
\* supervisor does not kill the process; a later message with the failure
\* text is on the feed only.
C4_NoFailureAfterReady ==
    \A i, j \in DOMAIN signals :
        (signals[i].ev = "ready" /\ i < j) => signals[j].ev \notin {"error", "kill"}

\* Ready was emitted and a later message on the feed carries the failure text.
C4_Witness ==
    \E i \in SignalsOf("ready") :
        \E k \in DOMAIN feed :
            /\ k > signals[i].at
            /\ MatchesFailed(feed[k].data)
            /\ \A j \in DOMAIN signals : signals[j].at # k

\* C5: the start-failure signal is emitted at most once and kill is called
\* at most once in a daemon's lifetime.
C5_FailureAtMostOnce ==
    /\ Cardinality(SignalsOf("error")) <= 1
    /\ Cardinality(SignalsOf("kill")) <= 1

\* C6: after end-of-stream the lines the framer emitted, rejoined with
\* newlines, are the input with at most one trailing newline removed; there
\* is one line per newline plus one for an unterminated rest, so no line is
\* emitted twice and an empty line between two newlines is emitted as ''.
C6_FramerRoundTrip ==
    ended["stdout"] =>
        LET in == input["stdout"]
            out == lines["stdout"]
            joined == Join(out, <<LF>>)
        IN  /\ \/ joined = in
               \/ in # <<>> /\ in[Len(in)] = LF /\ joined = SubSeq(in, 1, Len(in) - 1)
            /\ Len(out) = Cardinality({i \in DOMAIN in : in[i] = LF})
                              + (IF Remainder(in) # <<>> THEN 1 ELSE 0)
            /\ \A i \in DOMAIN out : \A j \in DOMAIN out[i] : out[i][j] # LF

\* The stream ended after every piece came as a chunk of its own; the input
\* had a line of two pieces, an empty line and an unterminated last line.
C6_Witness ==
    /\ ended["stdout"]
    /\ chunks = Len(input["stdout"])
    /\ \E a, b, c \in Fragments : input["stdout"] = <<a, b, LF, LF, c>>
    /\ Len(lines["stdout"]) = 3
    /\ lines["stdout"][2] = <<>>

\* C7: end-of-stream emits exactly one further line, the backlog, when the
\* backlog is not empty, and emits nothing when it is empty.
C7_EndFlushesBacklog ==
    [][(~ended["stdout"] /\ ended'["stdout"]) =>
          lines'["stdout"] = IF backlog["stdout"] # <<>>
                             THEN Append(lines["stdout"], backlog["stdout"])
                             ELSE lines["stdout"]]_vars

\* The stream ended with an unterminated line after a complete one, and the
\* unterminated line is the last line emitted.
C7_Witness ==
    /\ ended["stdout"]
    /\ Len(CompleteLines(input["stdout"])) >= 1
    /\ Remainder(input["stdout"]) # <<>>
    /\ Len(lines["stdout"]) = Len(CompleteLines(input["stdout"])) + 1
    /\ lines["stdout"][Len(lines["stdout"])] = Remainder(input["stdout"])

\* C8: a framed line that is not JSON is published as a message with level
\* 'error', source '' and the raw line as msg, and handling it raises no
\* exception (so the lines after it are framed and published as well).
C8_NonJsonLinePublished ==
    \A s \in Streams : \A i \in DOMAIN lines[s] :
        ~JsonValid(lines[s][i]) =>
            /\ i \in DOMAIN FeedOf(s)
            /\ FeedOf(s)[i].data.level = "error"
            /\ FeedOf(s)[i].data.source = <<>>
            /\ FeedOf(s)[i].data.msg = Flatten(lines[s][i])
            /\ \A u \in DOMAIN uncaught : ~(uncaught[u].from = s /\ uncaught[u].line = i)

\* C9: the messages on the feed that come from one stream are, in order,
\* the parsed lines that stream delivered, each exactly once.
C9_EveryLineOnceInOrder ==
    \A s \in Streams :
        /\ Len(FeedOf(s)) = Len(DeliveredLines(s))
        /\ \A i \in DOMAIN FeedOf(s) : FeedOf(s)[i].data = rcdJsonParser(DeliveredLines(s)[i])

\* C10: once a life-cycle signal was emitted, every line a framer passes on
\* is still published as a 'data' message, in the framer's order.
C10_FeedKeepsEmitting ==
    (SignalsOf("ready") \cup SignalsOf("error") # {}) =>
        \A s \in Streams :
            /\ Len(FeedOf(s)) = Len(lines[s])
            /\ \A i \in DOMAIN lines[s] : FeedOf(s)[i].data = rcdJsonParser(lines[s][i])

\* A signal was emitted and a later line reached the feed.
C10_Witness ==
    \E i \in DOMAIN signals :
        /\ signals[i].ev \in {"ready", "error"}
        /\ \E k \in DOMAIN feed : k > signals[i].at

\* C11: when abort is first called while the call awaits the response or
\* reads the body, the result fails with the cancellation error: it is
\* neither a value nor a transport or decoding error.
C11_AbortInFlightRejects ==
    rc.abortPhase \in {"awaiting", "reading"} => rc.result = "AbortError"

\* abort was called while the body was being read, after a first chunk.
C11_Witness ==
    /\ rc.abortPhase = "reading"
    /\ rc.received >= 1
    /\ rc.result = "AbortError"

\* C12: an abort call after the first one, or after the result settled,
\* changes nothing: the result, the phase and the number of requests stay.
C12_AbortIdempotent ==
    [][(rc'.abortCalls = rc.abortCalls + 1 /\ (rc.abortCalls >= 1 \/ rc.phase = "settled"))
          => /\ rc'.result = rc.result
             /\ rc'.phase = rc.phase
             /\ rc'.sent = rc.sent
             /\ rc'.request = rc.request
             /\ rc'.received = rc.received]_vars

\* The call resolved with a value and abort was then called twice.
C12_Witness ==
    /\ rc.abortPhase = "settled"
    /\ rc.abortCalls >= 2
    /\ rc.result = "value"
    /\ rc.sent = 1

\* C13: the environment rcd gives the daemon has RCLONE_USE_JSON_LOG 'true'
\* whatever the caller set for it, the caller's value for every other
\* variable the caller set, and the baseline value for every baseline
\* variable the caller did not set.
C13_EnvLayering ==
    (drv.last.op = "rcd" /\ ~drv.last.threw) =>
        LET set == IF drv.last.arg.given THEN drv.last.arg.vars ELSE <<>>
            env == drv.last.value
        IN  /\ env["RCLONE_USE_JSON_LOG"] = <<"true">>
            /\ \A k \in DOMAIN set \ {"RCLONE_USE_JSON_LOG"} : env[k] = set[k]
            /\ \A k \in DOMAIN BaselineEnv(<<>>) \ DOMAIN set :
                   env[k] = IF k # "RCLONE_CONFIG" THEN BaselineEnv(<<>>)[k]
                            ELSE IF drv.configFile # <<>> THEN drv.configFile
                            ELSE <<"/home/u/rclone.conf">>
            /\ DOMAIN env = DOMAIN BaselineEnv(<<>>) \cup DOMAIN set \cup {"RCLONE_USE_JSON_LOG"}

\* The caller set RCLONE_USE_JSON_LOG to 'false', overrode a baseline
\* variable and added one of its own; the daemon was launched.
C13_Witness ==
    /\ drv.last.op = "rcd"
    /\ ~drv.last.threw
    /\ drv.last.arg.given
    /\ DOMAIN drv.last.arg.vars = {"RCLONE_USE_JSON_LOG", "RCLONE_LOG_LEVEL", "HOME"}
    /\ drv.last.arg.vars["RCLONE_USE_JSON_LOG"] = <<"false">>
    /\ drv.last.value["RCLONE_USE_JSON_LOG"] = <<"true">>
    /\ drv.last.value["RCLONE_LOG_LEVEL"] = <<"DEBUG">>
    /\ drv.last.value["RCLONE_PASSWORD"] = <<"false">>

\* C14: getVersion returns a canonical version or fails with the
\* version-detection error; it returns nothing else, such as null.
C14_VersionOrError ==
    drv.last.op = "getVersion" =>
        \/ drv.last.threw /\ drv.last.value = <<"Cannot detect Rclone version.">>
        \/ ~drv.last.threw /\ drv.last.value = <<"1.60.0">>

\* C15: without an explicit config file, getConfigFile returns the trimmed
\* second line of the output, which is not empty, or fails with the
\* config-file-detection error.
C15_ConfigFileOrError ==
    (drv.last.op = "getConfigFile" /\ drv.configFile = <<>>) =>
        \/ drv.last.threw /\ drv.last.value = <<"Cannot detect default Rclone file.">>
        \/ /\ ~drv.last.threw
           /\ drv.last.value # <<>>
           /\ Len(SplitLines(Trim(OutputToString(drv.last.arg)))) >= 2
           /\ drv.last.value = Trim(SplitLines(Trim(OutputToString(drv.last.arg)))[2])

\* C16: construction resolves the binary: without an explicit path, the
\* platform's default name, whatever the file system holds; a path that does
\* not exist fails and no driver is created; a path that is a directory
\* gives the directory joined with the platform's executable name; any other
\* path is returned unchanged.  getBinary returns that value on every call.
C16_BinaryResolution ==
    drv.pc \notin {"none", "new"} =>
        LET name == IF drv.platform = "win32" THEN "rclone.exe" ELSE "rclone"
        IN  /\ drv.binaryPath = <<>> =>
                   drv.pc # "failed" /\ drv.binary = <<name>>
            /\ (drv.binaryPath # <<>> /\ drv.kind \in {"missing", "dangling-link"}) =>
                   drv.pc = "failed" /\ drv.last.op = "rcloneDriver" /\ drv.last.threw
            /\ (drv.binaryPath # <<>> /\ drv.kind = "directory") =>
                   drv.pc # "failed" /\ drv.binary = drv.binaryPath \o <<name>>
            /\ (drv.binaryPath # <<>> /\ drv.kind \in {"file", "link-to-file", "link-to-directory"}) =>
                   drv.pc # "failed" /\ drv.binary = drv.binaryPath
            /\ drv.last.op = "getBinary" => ~drv.last.threw /\ drv.last.value = drv.binary

\* A driver constructed on Windows with a directory path; getBinary was
\* called twice.
C16_Witness ==
    /\ drv.pc = "constructed"
    /\ drv.platform = "win32"
    /\ drv.kind = "directory"
    /\ drv.gets = 2
    /\ drv.last.op = "getBinary"
    /\ drv.last.value = <<"opt", "rclone", "rclone.exe">>

\* C17: the ready signal fires on the first published message whose source
\* starts with 'rcserver/rcserver.go' and whose msg starts with 'Serving
\* remote control'; its payload is that msg without its first 26
\* characters, which for 'Serving remote control on http://127.0.0.1:5572/'
\* is 'http://127.0.0.1:5572/'.
C17_ReadyPayload ==
    LET first == {k \in DOMAIN feed :
                     /\ MatchesReady(feed[k].data)
                     /\ \A j \in 1..(k - 1) : ~MatchesReady(feed[j].data)}
    IN  /\ \A k \in first :
               \E i \in SignalsOf("ready") :
                   /\ signals[i].at = k
                   /\ signals[i].payload = SubSeq(feed[k].data.msg, 27, Len(feed[k].data.msg))
                   /\ feed[k].data.msg = ReadyMsg => signals[i].payload = ReadyAddress
        /\ \A i \in SignalsOf("ready") : signals[i].at \in first

\* Ready fired with the address as payload, on a message that was not the
\* first one published.
C17_Witness ==
    \E i \in SignalsOf("ready") :
        /\ signals[i].at > 1
        /\ feed[signals[i].at].data.msg = ReadyMsg
        /\ signals[i].payload = ReadyAddress

\* C18: after the framer has handled a chunk its backlog contains no
\* newline: it holds at most one unterminated line.
C18_BacklogHasNoNewline ==
    /\ \A i \in DOMAIN backlog["stdout"] : backlog["stdout"][i] # LF
    /\ backlog["stdout"] = Remainder(input["stdout"])

\* One chunk brought two complete lines and the start of a third.
C18_Witness ==
    /\ chunks = 1
    /\ \E a, b, c \in Fragments : input["stdout"] = <<a, LF, b, LF, c>>
    /\ Len(backlog["stdout"]) = 1
    /\ Len(lines["stdout"]) = 2

\* A line that is valid JSON but not a record with source and msg fields.
NotARecord(text) == JsonValid(text) /\ JsonParse(text).t # "object"

\* C19: handling a framed line that is valid JSON but not a record with
\* string source and msg fields publishes one message, raises no exception
\* out of the stream handler and cuts the line off the backlog, so the line
\* is not passed to the callback again with the next chunk.
C19_NonRecordLineHandled ==
    \A s \in Streams :
        /\ \A i \in DOMAIN lines[s] :
               NotARecord(lines[s][i]) =>
                   /\ i \in DOMAIN FeedOf(s)
                   /\ FeedOf(s)[i].data = JsonNull
                   /\ \A u \in DOMAIN uncaught : ~(uncaught[u].from = s /\ uncaught[u].line = i)
        /\ Cardinality({i \in DOMAIN lines[s] : NotARecord(lines[s][i])})
               <= Cardinality({j \in DOMAIN DeliveredLines(s) : NotARecord(DeliveredLines(s)[j])})

\* C20: rcd returns before any 'data', 'ready' or 'error' event is emitted,
\* and the listeners the caller adds right after rcd returned are called
\* for every message published and for every ready and failure signal.
C20_CallerObservesAll ==
    /\ caller.pc \in {"idle", "returned"} => feed = <<>> /\ signals = <<>>
    /\ caller.pc = "subscribed" =>
           /\ \A k \in DOMAIN feed :
                  \E o \in DOMAIN caller.observed :
                      caller.observed[o] = [ev |-> "data", at |-> k]
           /\ \A i \in SignalsOf("ready") \cup SignalsOf("error") :
                  \E o \in DOMAIN caller.observed :
                      caller.observed[o] = [ev |-> signals[i].ev, at |-> i]

====
